---- MODULE Spec2Model ----
(***************************************************************************)
(* Model of the Calendar Synchronization Engine of calendar_manager.py:    *)
(* authenticate_google_calendar, get_calendar_id, create_event and the     *)
(* template / recurring / CSV paths built on it, sync_event_colors,        *)
(* update_event and the menu loop of main, against a remote calendar       *)
(* service that other clients may change; and of create_csv.py, which      *)
(* writes files for import_from_csv.                                       *)
(*                                                                         *)
(* One thread of control (the script); pc is its position.  Every         *)
(* iteration of the loops of sync_event_colors and import_from_csv is one  *)
(* step, an operation that builds one event is one step, and the outcome   *)
(* of every remote call (success or an exception) is chosen by the         *)
(* environment.  The variables are shared by eight specifications:         *)
(* SpecAuth, SpecSync, SpecImport, SpecBuild, SpecRecurring, SpecMenu,     *)
(* SpecCsv and SpecUpdate.                                                 *)
(***************************************************************************)
EXTENDS Integers, Sequences, FiniteSets, TLC

VARIABLES
    pc,            \* position of the script
    store,         \* token.json: the durable Credential, or NoFile
    creds,         \* local variable creds of authenticate_google_calendar
    refreshCalls,  \* creds.refresh(...) calls of this invocation
    flowRuns,      \* flow.run_local_server(...) calls of this invocation
    storeWrites,   \* writes of token.json of this invocation
    refreshError,  \* what the refresh call of this invocation raised
    loaded,        \* the Credential this invocation loaded from token.json
    service,       \* the Session the script holds (module variable service)
    events,        \* remote service: the events of each calendar, in list order
    op,            \* the menu operation that runs or ran last, and its argument
    calls,         \* the remote calls that operation has issued, in order
    report,        \* the messages that operation has printed, in order
    calendar_id,   \* sync_event_colors / import_from_csv: local calendar_id
    color_id,      \* sync_event_colors / import_from_csv: local color_id
    listed,        \* sync_event_colors: local events (the list response)
    idx,           \* position of the running for loop (1-based)
    updated_count, \* sync_event_colors: local updated_count
    rows,          \* import_from_csv: the rows csv.DictReader yields
    returned,      \* what the operation's function returns to main (line 1342)
    prev,          \* summary of the operation before op, when it was a sync
    dirty          \* another client changed the events since op began

authVars ==
    <<store, creds, refreshCalls, flowRuns, storeWrites, refreshError, loaded,
      service>>

syncVars == <<calendar_id, color_id, listed, idx, updated_count, rows>>

histVars == <<op, calls, report, returned, prev, dirty>>

vars == <<pc, authVars, events, syncVars, histVars>>

(***************************************************************************)
(* Bounds of the model                                                     *)
(***************************************************************************)

\* Most events a calendar holds at the remote service.
MaxEvents == 3

\* Events in one page of the service's events.list response.
PageSize == 2

\* Most rows of a CSV file given to import_from_csv.
MaxRows == 2

\* Most events the service holds when the four construction paths run
\* together.
MaxBuilt == 2

(***************************************************************************)
(* Configuration: the environment variables read at lines 66-79            *)
(***************************************************************************)

\* CALENDAR_NAMES: calendar name -> hex colour.
calendars == [Work |-> "#D50000", Home |-> "#FFFFFF", work |-> "#FFFFFF"]

\* COLOR_MAP: hex colour -> the service's colorId.
color_map == ("#D50000" :> "11") @@ ("#236192" :> "9")

\* dict.get(key, default)
Get(d, key, default) == IF key \in DOMAIN d THEN d[key] ELSE default

\* The names a user may type at "Enter calendar name".
CalendarNames == {"Work", "Misc", "Home"}

\* The names a user may type for sync_event_colors.
SyncNames == CalendarNames \cup {"work", "Gym"}

(***************************************************************************)
(* The remote calendar service                                             *)
(***************************************************************************)

\* An event or calendar without a colorId key.
NoColor == "none"

\* The account's calendars, in the order and in the pages in which the
\* service's calendarList.list returns them. Two calendars are named "Work",
\* one is named "work"; "Home" is configured but is no calendar of the
\* account.
RemoteCalendarPages ==
    << << [summary |-> "work", id |-> "c0", colorId |-> NoColor],
          [summary |-> "Work", id |-> "c1", colorId |-> "5"],
          [summary |-> "Misc", id |-> "c2", colorId |-> NoColor],
          [summary |-> "Work", id |-> "c3", colorId |-> "7"] >>,
       << [summary |-> "Gym", id |-> "c4", colorId |-> NoColor] >> >>

\* The items of the response of calendarList().list().execute(), a request
\* without pageToken: the first page.
RemoteCalendarList == RemoteCalendarPages[1]

\* The calendars of all pages.
AllCalendars == RemoteCalendarPages[1] \o RemoteCalendarPages[2]

CalendarIds == {AllCalendars[i].id : i \in 1..Len(AllCalendars)}

\* get_calendar_id returns None.
NoCalendar == "None"

\* The date texts and time texts the model knows, with the day and the minute
\* of the day each names; any other text is no ISO 8601 date or time.
DateValue == ("2024-06-01" :> 0) @@ ("2024-06-02" :> 1)

TimeValue ==
    ("08:30:00" :> 510) @@ ("09:00:00" :> 540) @@ ("09:30:00" :> 570) @@ ("10:00:00" :> 600)
    @@ ("10:30:00" :> 630)

\* The string f"{date}T{time}".
DateTime(date, time) == [date |-> date, time |-> time]

\* No datetime string.
NoTime == DateTime("", "")

\* datetime.fromisoformat(s) does not raise ValueError.
IsIsoFormat(s) == s.date \in DOMAIN DateValue /\ s.time \in DOMAIN TimeValue

\* datetime.fromisoformat(s), in minutes since 2024-06-01T00:00:00.
FromIsoFormat(s) == DateValue[s.date] * 1440 + TimeValue[s.time]

\* An event without a recurrence key.
NoRule == ""

\* Mutant of Reminders: the email reminder is left out.
RemindersWithoutEmail ==
    [useDefault |-> FALSE, overrides |-> << [method |-> "popup", minutes |-> 10] >>]

\* The reminders every payload built by the script carries.
Reminders ==
    [useDefault |-> FALSE,
     overrides |-> << [method |-> "email", minutes |-> 30],
                      [method |-> "popup", minutes |-> 10] >>]

\* The reminders of an event some other client created.
DefaultReminders == [useDefault |-> TRUE, overrides |-> << >>]

\* The event payload the script sends to events().insert.
Payload(summary, start, end, colorId, recurrence) ==
    [summary |-> summary, start |-> start, end |-> end, colorId |-> colorId,
     recurrence |-> recurrence, reminders |-> Reminders]

\* An event resource of the service.
Event(id, summary, start, end, colorId) ==
    [id |-> id, summary |-> summary, start |-> start, end |-> end, colorId |-> colorId,
     recurrence |-> NoRule, reminders |-> DefaultReminders]

\* events().insert(calendarId, body): the service stores the body as a new
\* event, after the calendar's other events, under a new id.
Insert(stored, body) == Append(stored, [id |-> Len(stored) + 1] @@ body)

\* The events a calendar may hold before the script touches it.
StoredEvent(id, colorId) ==
    Event(id, "A", DateTime("2024-06-01", "09:00:00"), DateTime("2024-06-01", "09:30:00"),
          colorId)

StoredColors == {NoColor, "9", "11"}

RECURSIVE StoredEventLists(_)
StoredEventLists(n) ==
    IF n = 0 THEN {<< >>}
    ELSE {<< >>} \cup
         {Append(l, StoredEvent(Len(l) + 1, c)) :
             l \in {k \in StoredEventLists(n - 1) : Len(k) = n - 1}, c \in StoredColors}
         \cup StoredEventLists(n - 1)

NoEvents == [c \in CalendarIds |-> << >>]

\* The number of events the service holds in the first i calendars.
RECURSIVE EventsHeld(_)
EventsHeld(i) == IF i = 0 THEN 0 ELSE Len(events[AllCalendars[i].id]) + EventsHeld(i - 1)

\* The number of events the service holds.
TotalEvents == EventsHeld(Len(AllCalendars))

\* Python's None.
None == [isNone |-> TRUE]

\* A number as a Python value.
Number(n) == [isNone |-> FALSE, value |-> n]

\* A request without a body.
NoBody == [isNone |-> TRUE]

\* A remote call the script issued: the API method, its main argument (the
\* eventId of an update, the CSV row an insert is for), the body sent, and
\* whether it succeeded (FALSE: execute() raised).
Call(api, arg, body, ok) == [api |-> api, arg |-> arg, body |-> body, ok |-> ok]

\* A message the script printed.
Msg(msg, n) == [msg |-> msg, n |-> n]

AnyFailed(cs) == \E i \in 1..Len(cs) : ~cs[i].ok

\* An operation of the menu with its calendar_name argument, for an
\* operation that builds one event the start and end time it was given, and
\* the texts typed at its other prompts.
Op(name, arg, start_time, end_time, typed) ==
    [name |-> name, arg |-> arg, start_time |-> start_time, end_time |-> end_time,
     typed |-> typed]

NoOp == Op("none", "", NoTime, NoTime, << >>)

IdleLocals ==
    /\ calendar_id = NoCalendar
    /\ color_id = "1"
    /\ listed = << >>
    /\ idx = 0
    /\ updated_count = 0
    /\ rows = << >>

\* No sync_event_colors run was the last operation.
NoSync == [name |-> "none", arg |-> "", failed |-> FALSE, changed |-> FALSE, updates |-> 0]

NoHistory ==
    /\ op = NoOp
    /\ calls = << >>
    /\ report = << >>
    /\ returned = None
    /\ prev = NoSync
    /\ dirty = FALSE

(***************************************************************************)
(* Authenticator: authenticate_google_calendar                             *)
(***************************************************************************)

NoFile == [exists |-> FALSE]

\* A Credential as Credentials.from_authorized_user_file reads it: the access
\* token and the refresh token (each "none" when absent, else named by where
\* it came from) and whether the expiry has passed.
Credential(tok, rt, exp) ==
    [isNone |-> FALSE, token |-> tok, refresh_token |-> rt, expired |-> exp]

StoredCredentials ==
    {Credential(tok, rt, exp) :
        tok \in {"none", "stored"}, rt \in {"none", "stored"}, exp \in BOOLEAN}

\* A token is held (Python truthiness of the string).
Held(tok) == tok # "none"

\* Mutant of Valid: a Credential without a refresh_token is not valid.
ValidWithRefreshToken(c) ==
    ~c.isNone /\ Held(c.token) /\ Held(c.refresh_token) /\ ~c.expired

\* creds.valid: a token is held and it is not expired.
Valid(c) == ~c.isNone /\ Held(c.token) /\ ~c.expired

\* What the refresh call can raise: nothing, RefreshError (invalid grant),
\* or any other exception of the transport (TransportError).
RefreshOutcomes == {"ok", "RefreshError", "TransportError"}


\* Mutant of AfterCredentials: the flow is skipped when creds is None
\* (if creds and not creds.valid).
AfterCredentialsSkipsNone(c) ==
    IF ~c.isNone /\ ~Valid(c) THEN "auth_flow" ELSE "auth_build"

\* Line 139: the full OAuth flow runs when no valid creds remain.
AfterCredentials(c) == IF c.isNone \/ ~Valid(c) THEN "auth_flow" ELSE "auth_build"

\* Lines 119-127: load token.json if it exists; an expired Credential with a
\* refresh_token goes to the refresh attempt.
AuthLoad ==
    /\ pc = "auth_load"
    /\ creds' = IF store.exists THEN store.cred ELSE None
    /\ loaded' = creds'
    /\ pc' = IF store.exists /\ store.cred.expired /\ Held(store.cred.refresh_token)
             THEN "auth_refresh"
             ELSE AfterCredentials(creds')
    /\ UNCHANGED <<store, refreshCalls, flowRuns, storeWrites, refreshError, service>>
    /\ UNCHANGED <<events, syncVars, histVars>>

\* Mutant of SaveToken: nothing is written; token.json stays as it is.
SaveTokenSkipped(c) == store

\* Lines 131-132 and 143-144: token.json after
\* open("token.json", "w").write(creds.to_json()): it holds c.
SaveToken(c) == [exists |-> TRUE, cred |-> c]

\* The exceptions of the refresh call that line 134 catches.
CaughtByRefreshHandler(outcome) == outcome = "RefreshError"

\* Lines 128-136: one refresh call.  On success the new Credential is written
\* to token.json; a caught exception drops creds; any other exception leaves
\* authenticate_google_calendar (and, at line 156, the script).
AuthRefresh ==
    /\ pc = "auth_refresh"
    /\ \E outcome \in RefreshOutcomes :
          /\ refreshCalls' = refreshCalls + 1
          /\ refreshError' = outcome
          /\ IF outcome = "ok"
             THEN /\ creds' = [creds EXCEPT !.token = "refreshed", !.expired = FALSE]
                  /\ store' = SaveToken(creds')
                  /\ storeWrites' = storeWrites + 1
                  /\ pc' = AfterCredentials(creds')
             ELSE IF CaughtByRefreshHandler(outcome)
             THEN /\ creds' = None
                  /\ pc' = AfterCredentials(creds')
                  /\ UNCHANGED <<store, storeWrites>>
             ELSE /\ pc' = "crash"
                  /\ UNCHANGED <<creds, store, storeWrites>>
    /\ UNCHANGED <<flowRuns, loaded, service>>
    /\ UNCHANGED <<events, syncVars, histVars>>

\* Lines 140-148: the full interactive OAuth flow, once.  The provider may or
\* may not hand out a refresh_token with the new Credential.  A failure of
\* the flow raises SystemExit.
AuthFlow ==
    /\ pc = "auth_flow"
    /\ flowRuns' = flowRuns + 1
    /\ \/ \E rt \in {"none", "issued"} :
             /\ creds' = Credential("issued", rt, FALSE)
             /\ store' = SaveToken(creds')
             /\ storeWrites' = storeWrites + 1
             /\ pc' = "auth_build"
       \/ /\ pc' = "exit"
          /\ UNCHANGED <<creds, store, storeWrites>>
    /\ UNCHANGED <<refreshCalls, refreshError, loaded, service>>
    /\ UNCHANGED <<events, syncVars, histVars>>

\* Lines 150-152: build and return the service (the Session).
AuthBuild ==
    /\ pc = "auth_build"
    /\ pc' = "menu"
    /\ service' = creds
    /\ UNCHANGED <<store, creds, refreshCalls, flowRuns, storeWrites, refreshError, loaded>>
    /\ UNCHANGED <<events, syncVars, histVars>>

\* The stored Credential's expiry passes (creds.expired, line 127, is a
\* comparison of the stored expiry with the clock).
TokenExpires ==
    /\ pc \in {"menu", "exit", "crash"}
    /\ store.exists /\ ~store.cred.expired
    /\ store' = [store EXCEPT !.cred.expired = TRUE]
    /\ UNCHANGED <<pc, creds, refreshCalls, flowRuns, storeWrites, refreshError, loaded,
                   service>>
    /\ UNCHANGED <<events, syncVars, histVars>>

\* Line 156: the script is started again; service = authenticate_google_calendar().
ProgramStart ==
    /\ pc \in {"menu", "exit", "crash"}
    /\ pc' = "auth_load"
    /\ creds' = None
    /\ loaded' = None
    /\ refreshCalls' = 0
    /\ flowRuns' = 0
    /\ storeWrites' = 0
    /\ refreshError' = "none"
    /\ service' = None
    /\ UNCHANGED store
    /\ UNCHANGED <<events, syncVars, histVars>>

InitAuth ==
    /\ pc = "auth_load"
    /\ store \in {NoFile} \cup {[exists |-> TRUE, cred |-> c] : c \in StoredCredentials}
    /\ creds = None
    /\ loaded = None
    /\ refreshCalls = 0
    /\ flowRuns = 0
    /\ storeWrites = 0
    /\ refreshError = "none"
    /\ service = None
    /\ events = NoEvents
    /\ IdleLocals
    /\ NoHistory

NextAuth ==
    \/ AuthLoad
    \/ AuthRefresh
    \/ AuthFlow
    \/ AuthBuild
    \/ TokenExpires
    \/ ProgramStart

SpecAuth == InitAuth /\ [][NextAuth]_vars

(***************************************************************************)
(* Claims about authenticate_google_calendar, checked under SpecAuth       *)
(***************************************************************************)

\* This invocation found a stored Credential that is expired and has a
\* refresh_token.
LoadedExpiredWithRefresh == ~loaded.isNone /\ loaded.expired /\ Held(loaded.refresh_token)

\* authenticate_google_calendar has returned the service.
SessionReturned == pc = "menu" /\ ~service.isNone

\* C7: when the stored Credential is expired and has a refresh_token, exactly
\* one refresh call is issued before a session is returned; if that call
\* reports invalid-grant (RefreshError), the full OAuth flow is the next step
\* and runs exactly once, with no second refresh attempt.
C7_OneRefreshThenFlow ==
    LoadedExpiredWithRefresh =>
        /\ refreshCalls <= 1
        /\ (pc = "auth_refresh" <=> refreshCalls = 0)
        /\ (SessionReturned => refreshCalls = 1)
        /\ (refreshError = "RefreshError" =>
               \/ pc = "auth_flow" /\ flowRuns = 0
               \/ pc \in {"auth_build", "menu", "exit"} /\ flowRuns = 1)
        /\ (refreshError = "ok" => flowRuns = 0)

\* C7 witness: a session was returned after one refresh call that reported
\* invalid-grant and one run of the full flow.
C7_Witness ==
    /\ LoadedExpiredWithRefresh
    /\ SessionReturned
    /\ refreshError = "RefreshError"
    /\ refreshCalls = 1
    /\ flowRuns = 1

\* C8: any error raised by the refresh call falls through to the full
\* re-issuance flow; an error during refresh never ends
\* authenticate_google_calendar by itself.
C8_RefreshErrorFallsThrough ==
    refreshError \in {"RefreshError", "TransportError"} =>
        pc \in {"auth_flow", "auth_build", "menu", "exit"}

(***************************************************************************)
(* Calendar Directory: get_calendar_id                                     *)
(***************************************************************************)

\* str.lower() of the calendar names.
Lower(name) == IF name = "Work" THEN "work" ELSE name

\* Mutant of FirstMatch: the names are compared without regard to case.
FirstMatchIgnoringCase(items, calendar_name) ==
    IF \E i \in 1..Len(items) : Lower(items[i].summary) = Lower(calendar_name)
    THEN items[CHOOSE i \in 1..Len(items) :
                  /\ Lower(items[i].summary) = Lower(calendar_name)
                  /\ \A j \in 1..(i - 1) :
                        Lower(items[j].summary) # Lower(calendar_name)].id
    ELSE NoCalendar

\* Lines 408-415: the first calendar of the response whose summary equals
\* calendar_name; lines 417-420: None when there is none.
FirstMatch(items, calendar_name) ==
    IF \E i \in 1..Len(items) : items[i].summary = calendar_name
    THEN items[CHOOSE i \in 1..Len(items) :
                  /\ items[i].summary = calendar_name
                  /\ \A j \in 1..(i - 1) : items[j].summary # calendar_name].id
    ELSE NoCalendar

\* Lines 403-426: one calendarList.list call; an exception of it gives None.
GetCalendarId(listOk, calendar_name) ==
    IF listOk THEN FirstMatch(RemoteCalendarList, calendar_name) ELSE NoCalendar

\* The request of get_calendar_id.
GetCalendarIdCall(listOk) == Call("calendarList.list", 0, NoBody, listOk)

\* Lines 417-419 and 422-425: what get_calendar_id prints when it returns None.
GetCalendarIdReport(listOk, calendar_name) ==
    IF ~listOk THEN << Msg("error fetching calendar ID", 0) >>
    ELSE IF FirstMatch(RemoteCalendarList, calendar_name) = NoCalendar
    THEN << Msg("calendar not found.", 0) >>
    ELSE << >>

(***************************************************************************)
(* Sync Engine: sync_event_colors                                          *)
(***************************************************************************)

\* Mutant of SyncColorId: a name the configuration does not have gets no
\* default hex.
SyncColorIdWithoutDefaultHex(calendar_name) ==
    Get(color_map, Get(calendars, calendar_name, ""), "1")

\* Lines 1179-1184: the calendar's colorId from the configuration.
SyncColorId(calendar_name) ==
    Get(color_map, Get(calendars, calendar_name, "#236192"), "1")

\* Line 1188: events().list(calendarId=calendar_id).execute() is one request;
\* the response holds the first page of the calendar's events.
ListEvents(cal) ==
    SubSeq(events[cal], 1, IF Len(events[cal]) < PageSize THEN Len(events[cal]) ELSE PageSize)

\* Mutant of NeedsUpdate: the event's colour is compared with the default
\* colorId "1" instead of the calendar's.
NeedsUpdateAgainstDefault(event, target) == event.colorId # "1"

\* Line 1206: the event's colour differs from the calendar's.
NeedsUpdate(event, target) == event.colorId # target

\* events().update(eventId, body): the service replaces the stored resource
\* of that id by the body.
Put(stored, id, body) ==
    [i \in 1..Len(stored) |-> IF stored[i].id = id THEN body ELSE stored[i]]

\* The successful updates among the calls.
Updates(cs) == Cardinality({i \in 1..Len(cs) : cs[i].api = "events.update" /\ cs[i].ok})

\* What the history keeps of the operation that returns.
Remember ==
    IF op.name = "sync"
    THEN [name |-> op.name, arg |-> op.arg, failed |-> AnyFailed(calls), changed |-> FALSE,
          updates |-> Updates(calls)]
    ELSE NoSync

\* Lines 1170-1193: resolve the calendar, compute the target colorId, list
\* the events.
SyncBegin(calendar_name) ==
    /\ pc = "menu"
    /\ prev' = [prev EXCEPT !.changed = dirty]
    /\ dirty' = FALSE
    /\ op' = Op("sync", calendar_name, NoTime, NoTime, << >>)
    /\ \E calOk \in BOOLEAN, listOk \in BOOLEAN :
          LET id == GetCalendarId(calOk, calendar_name) IN
          IF id = NoCalendar
          THEN \* lines 1172-1175
               /\ listOk
               /\ calls' = << GetCalendarIdCall(calOk) >>
               /\ report' = GetCalendarIdReport(calOk, calendar_name)
                                \o << Msg("calendar not found!", 0) >>
               /\ calendar_id' = NoCalendar
               /\ color_id' = "1"
               /\ listed' = << >>
               /\ idx' = 0
               /\ updated_count' = 0
               /\ pc' = "return"
               /\ returned' = None
               /\ UNCHANGED rows
          ELSE /\ calls' = << GetCalendarIdCall(calOk),
                              Call("events.list", 0, NoBody, listOk) >>
               /\ calendar_id' = id
               /\ color_id' = SyncColorId(calendar_name)
               /\ updated_count' = 0
               /\ UNCHANGED rows
               /\ IF listOk
                  THEN /\ listed' = ListEvents(id)
                       /\ idx' = 1
                       /\ report' = << >>
                       /\ pc' = "sync_loop"
                       /\ UNCHANGED returned
                  ELSE \* lines 1221-1224
                       /\ listed' = << >>
                       /\ idx' = 0
                       /\ report' = << Msg("error syncing", 0) >>
                       /\ pc' = "return"
                       /\ returned' = None
    /\ UNCHANGED <<authVars, events>>

\* Lines 1196-1215: one iteration of the for loop.  The update request sends
\* the whole event as listed, with colorId set; an exception of it is caught
\* at line 1221, outside the loop.
SyncEvent ==
    /\ pc = "sync_loop"
    /\ idx <= Len(listed)
    /\ LET event == listed[idx] IN
       IF NeedsUpdate(event, color_id)
       THEN LET body == [event EXCEPT !.colorId = color_id] IN
            /\ listed' = [listed EXCEPT ![idx] = body]
            /\ \E ok \in BOOLEAN :
                  /\ calls' = Append(calls, Call("events.update", event.id, body, ok))
                  /\ IF ok
                     THEN /\ events' = [events EXCEPT ![calendar_id] = Put(@, event.id, body)]
                          /\ report' = Append(report, Msg("updated color", event.id))
                          /\ updated_count' = updated_count + 1
                          /\ idx' = idx + 1
                          /\ UNCHANGED <<pc, returned>>
                     ELSE /\ report' = Append(report, Msg("error syncing", 0))
                          /\ pc' = "return"
                          /\ returned' = None
                          /\ UNCHANGED <<events, updated_count, idx>>
       ELSE /\ idx' = idx + 1
            /\ UNCHANGED <<pc, returned, events, listed, calls, report, updated_count>>
    /\ UNCHANGED <<authVars, calendar_id, color_id, rows, op, prev, dirty>>

\* Lines 1217-1219: the loop is over; print the count.
SyncFinish ==
    /\ pc = "sync_loop"
    /\ idx > Len(listed)
    /\ report' = Append(report, Msg("finished syncing", updated_count))
    /\ pc' = "return"
    /\ returned' = None
    /\ UNCHANGED <<authVars, events, syncVars, op, calls, prev, dirty>>

\* The operation returns to the menu loop of main (lines 1339-1348): its
\* locals are gone, and the history keeps a summary of it.
Return ==
    /\ pc = "return"
    /\ pc' = "menu"
    /\ returned' = None
    /\ prev' = Remember
    /\ op' = NoOp
    /\ calls' = << >>
    /\ report' = << >>
    /\ calendar_id' = NoCalendar
    /\ color_id' = "1"
    /\ listed' = << >>
    /\ idx' = 0
    /\ updated_count' = 0
    /\ rows' = << >>
    /\ UNCHANGED <<authVars, events, dirty>>

\* Another client of the shared remote calendar renames an event.
OtherClientRenames ==
    /\ pc \in {"menu", "sync_loop"}
    /\ \E c \in CalendarIds, i \in 1..MaxEvents :
          /\ i <= Len(events[c])
          /\ events[c][i].summary = "A"
          /\ events' = [events EXCEPT ![c][i].summary = "B"]
    /\ dirty' = TRUE
    /\ UNCHANGED <<pc, returned, authVars, syncVars, op, calls, report, prev>>

\* The script is at its menu with a Session.
Authenticated ==
    /\ store = [exists |-> TRUE, cred |-> Credential("stored", "stored", FALSE)]
    /\ creds = store.cred
    /\ loaded = store.cred
    /\ service = store.cred
    /\ refreshCalls = 0
    /\ flowRuns = 0
    /\ storeWrites = 0
    /\ refreshError = "none"

InitSync ==
    /\ pc = "menu"
    /\ Authenticated
    /\ \E l \in StoredEventLists(MaxEvents) :
          events = [c \in CalendarIds |-> IF c = "c1" THEN l ELSE << >>]
    /\ IdleLocals
    /\ NoHistory

NextSync ==
    \/ \E calendar_name \in SyncNames : SyncBegin(calendar_name)
    \/ SyncEvent
    \/ SyncFinish
    \/ Return
    \/ OtherClientRenames

SpecSync == InitSync /\ [][NextSync]_vars

(***************************************************************************)
(* Bulk Importer: import_from_csv                                          *)
(***************************************************************************)

\* A string value of a CSV row.
Text(t) == [isNone |-> FALSE, text |-> t]

\* A row of csv.DictReader, by what row.get(column, "") returns for the five
\* columns "Summary", "Start Date", "Start Time", "End Date" and "End Time":
\* the cell's text, or None for a column the row is too short for.
Row(summary, start_date, start_time, end_date, end_time) ==
    [Summary |-> summary, StartDate |-> start_date, StartTime |-> start_time,
     EndDate |-> end_date, EndTime |-> end_time]

Columns == {"Summary", "StartDate", "StartTime", "EndDate", "EndTime"}

\* The rows a file may hold: a well-formed one, one that ends when it starts,
\* one that ends before it starts, one with an empty cell, one with a cell of
\* white space, one with fewer cells than the header, one with a time that
\* is no ISO time.
CsvRows ==
    { Row(Text("Standup"), Text("2024-06-01"), Text("09:00:00"), Text("2024-06-01"), Text("09:30:00")),
      Row(Text("Standup"), Text("2024-06-01"), Text("09:00:00"), Text("2024-06-01"), Text("09:00:00")),
      Row(Text("Standup"), Text("2024-06-01"), Text("09:30:00"), Text("2024-06-01"), Text("09:00:00")),
      Row(Text(""), Text("2024-06-01"), Text("09:00:00"), Text("2024-06-01"), Text("09:30:00")),
      Row(Text("Standup"), Text("2024-06-01"), Text(" "), Text("2024-06-01"), Text("09:30:00")),
      Row(Text("Standup"), Text("2024-06-01"), Text("09:00:00"), Text("2024-06-01"), None),
      Row(Text("Standup"), Text("2024-06-01"), Text("9am"), Text("2024-06-01"), Text("09:30:00")) }

RECURSIVE RowLists(_)
RowLists(n) ==
    IF n = 0 THEN {<< >>}
    ELSE RowLists(n - 1) \cup
         {Append(l, r) : l \in {k \in RowLists(n - 1) : Len(k) = n - 1}, r \in CsvRows}

\* The csv_file argument: a path with no file, an empty file, or a file with
\* the header and some rows; entered is what was typed in create_csv.py when
\* the file was written by it.
CsvFiles(n) ==
    { [exists |-> FALSE, header |-> FALSE, rows |-> << >>, entered |-> << >>],
      [exists |-> TRUE, header |-> FALSE, rows |-> << >>, entered |-> << >>] }
    \cup {[exists |-> TRUE, header |-> TRUE, rows |-> l, entered |-> << >>] : l \in RowLists(n)}

\* The csv_file arguments a user may give.
CsvArguments == CsvFiles(MaxRows)

\* The csv_file arguments by the number of rows of the file.
CsvArgumentsOfLength == [n \in 0..MaxRows |-> {file \in CsvArguments : Len(file.rows) = n}]

\* str.strip()
Strip(t) == IF t = " " THEN "" ELSE t

\* Lines 617-621 raise AttributeError: None has no strip.
StripRaises(row) == \E c \in Columns : row[c].isNone

\* Line 624: not all([summary, start_date, start_time, end_date, end_time]).
MissingFields(row) == \E c \in Columns : Strip(row[c].text) = ""

\* Lines 631-632: the two datetime strings of the row.
StartDatetime(row) == DateTime(Strip(row.StartDate.text), Strip(row.StartTime.text))

EndDatetime(row) == DateTime(Strip(row.EndDate.text), Strip(row.EndTime.text))

\* Lines 635-636 raise ValueError.
InvalidFormat(row) == ~IsIsoFormat(StartDatetime(row)) \/ ~IsIsoFormat(EndDatetime(row))

\* Mutant of ImportRangeInvalid: an event that ends when it starts is accepted.
ImportRangeInvalidStrict(start_dt, end_dt) == start_dt > end_dt

\* Line 638: start_dt >= end_dt.
ImportRangeInvalid(start_dt, end_dt) == start_dt >= end_dt

\* Lines 646-667: the payload of the row.
ImportPayload(row, colour) ==
    Payload(Strip(row.Summary.text), StartDatetime(row), EndDatetime(row), colour, NoRule)

\* Lines 1131-1154: get_calendar_color_id, one calendarList.list call: the
\* colorId of the first calendar of that name, "1" when it has none, when
\* there is no such calendar and when the call raises.
GetCalendarColorId(listOk, calendar_name) ==
    IF listOk /\ \E i \in 1..Len(RemoteCalendarList) :
                     RemoteCalendarList[i].summary = calendar_name
    THEN LET calendar ==
                 RemoteCalendarList[CHOOSE i \in 1..Len(RemoteCalendarList) :
                     /\ RemoteCalendarList[i].summary = calendar_name
                     /\ \A j \in 1..(i - 1) : RemoteCalendarList[j].summary # calendar_name]
         IN IF calendar.colorId = NoColor THEN "1" ELSE calendar.colorId
    ELSE "1"

\* Lines 590-612: resolve the calendar, fetch its colour, open the file and
\* read the header.
ImportBegin(calendar_name, file) ==
    /\ pc = "menu"
    /\ TotalEvents + Len(file.rows) <= MaxEvents
    /\ prev' = [prev EXCEPT !.changed = dirty]
    /\ dirty' = FALSE
    /\ op' = Op("import", calendar_name, NoTime, NoTime, file.entered)
    /\ \E calOk \in BOOLEAN, colOk \in BOOLEAN :
          LET id == GetCalendarId(calOk, calendar_name) IN
          IF id = NoCalendar
          THEN \* lines 592-595
               /\ colOk
               /\ calls' = << GetCalendarIdCall(calOk) >>
               /\ report' = GetCalendarIdReport(calOk, calendar_name)
                                \o << Msg("calendar not found!", 0) >>
               /\ calendar_id' = NoCalendar
               /\ color_id' = "1"
               /\ rows' = << >>
               /\ idx' = 0
               /\ pc' = "return"
               /\ returned' = None
          ELSE /\ calls' = << GetCalendarIdCall(calOk),
                              Call("calendarList.list", 0, NoBody, colOk) >>
               /\ calendar_id' = id
               /\ color_id' = GetCalendarColorId(colOk, calendar_name)
               /\ IF file.exists /\ file.header
                  THEN /\ rows' = file.rows
                       /\ idx' = 1
                       /\ report' = << Msg("CSV headers", 0) >>
                       /\ pc' = "import_loop"
                       /\ UNCHANGED returned
                  ELSE \* lines 606-609 and 691-694
                       /\ rows' = << >>
                       /\ idx' = 0
                       /\ report' = << Msg(IF file.exists THEN "CSV file is empty"
                                                          ELSE "CSV file not found", 0) >>
                       /\ pc' = "return"
                       /\ returned' = None
    /\ UNCHANGED <<authVars, events, listed, updated_count>>

\* An exception that is neither ValueError nor KeyError leaves the for loop
\* and is caught at line 695: the import is over.
ImportAborts ==
    /\ report' = Append(report, Msg("error processing CSV", idx))
    /\ pc' = "return"
    /\ returned' = None
    /\ UNCHANGED idx

\* Lines 625-627, 639-643, 678-685: the row is skipped with a message.
ImportSkips(reason) ==
    /\ report' = Append(report, Msg(reason, idx))
    /\ idx' = idx + 1
    /\ UNCHANGED <<pc, returned>>

\* Lines 615-689: one iteration of the for loop.
ImportRow ==
    /\ pc = "import_loop"
    /\ idx <= Len(rows)
    /\ LET row == rows[idx] IN
       IF StripRaises(row)
       THEN ImportAborts /\ UNCHANGED <<events, calls>>
       ELSE IF MissingFields(row)
       THEN ImportSkips("skipping row: missing fields") /\ UNCHANGED <<events, calls>>
       ELSE IF InvalidFormat(row)
       THEN ImportSkips("skipping row: invalid datetime format") /\ UNCHANGED <<events, calls>>
       ELSE IF ImportRangeInvalid(FromIsoFormat(StartDatetime(row)),
                                  FromIsoFormat(EndDatetime(row)))
       THEN ImportSkips("skipping row: invalid time range") /\ UNCHANGED <<events, calls>>
       ELSE LET body == ImportPayload(row, color_id) IN
            \E ok \in BOOLEAN :
               /\ calls' = Append(calls, Call("events.insert", idx, body, ok))
               /\ IF ok
                  THEN /\ events' = [events EXCEPT ![calendar_id] = Insert(@, body)]
                       /\ report' = Append(report, Msg("event added", idx))
                       /\ idx' = idx + 1
                       /\ UNCHANGED <<pc, returned>>
                  ELSE ImportAborts /\ UNCHANGED events
    /\ UNCHANGED <<authVars, calendar_id, color_id, listed, updated_count, rows, op, prev,
                   dirty>>

\* The reader is exhausted: import_from_csv returns.
ImportFinish ==
    /\ pc = "import_loop"
    /\ idx > Len(rows)
    /\ pc' = "return"
    /\ returned' = None
    /\ UNCHANGED <<authVars, events, syncVars, op, calls, report, prev, dirty>>

InitImport ==
    /\ pc = "menu"
    /\ Authenticated
    /\ events = NoEvents
    /\ IdleLocals
    /\ NoHistory

NextImport ==
    \/ \E calendar_name \in CalendarNames, file \in CsvArguments :
          ImportBegin(calendar_name, file)
    \/ ImportRow
    \/ ImportFinish
    \/ Return

SpecImport == InitImport /\ [][NextImport]_vars

(***************************************************************************)
(* Claims about sync_event_colors, checked under SpecSync                  *)
(***************************************************************************)

\* The calendar name resolves to a calendar of the account.
Resolvable(calendar_name) == FirstMatch(RemoteCalendarList, calendar_name) # NoCalendar

\* A sync run is about to return, and the run before it was a sync of the same
\* calendar with no change to the events since that run began.
SecondConsecutiveRun ==
    /\ pc = "return"
    /\ op.name = "sync"
    /\ Resolvable(op.arg)
    /\ prev.name = "sync" /\ prev.arg = op.arg
    /\ ~prev.changed

NoUpdateIssued == \A i \in 1..Len(calls) : calls[i].api # "events.update"

UpdatedNothing ==
    /\ NoUpdateIssued
    /\ report = << Msg("finished syncing", 0) >>

UpdateAttempted(id) ==
    \E i \in 1..Len(calls) : calls[i].api = "events.update" /\ calls[i].arg = id

\* C3: in sync_event_colors a failure of the remote update of one event does
\* not abort the loop: once the run has ended, every listed event whose colour
\* differs from the target has had its update attempted.
C3_LaterEventsStillAttempted ==
    (pc = "return" /\ op.name = "sync" /\ calendar_id # NoCalendar)
        => \A i \in 1..Len(listed) :
              NeedsUpdate(listed[i], color_id) => UpdateAttempted(listed[i].id)

\* C9: after a sync_event_colors run in which no remote call fails (and no
\* other client changes the calendar), every event the service holds for the
\* calendar has the calendar's target colorId.
C9_AllEventsHaveTargetColour ==
    (pc = "return" /\ op.name = "sync" /\ calendar_id # NoCalendar
        /\ ~AnyFailed(calls) /\ ~dirty)
        => \A i \in 1..Len(events[calendar_id]) :
              events[calendar_id][i].colorId = color_id

\* This step is a successful events.update request of sync_event_colors.
UpdateStep ==
    /\ pc = "sync_loop"
    /\ Len(calls') = Len(calls) + 1
    /\ calls'[Len(calls')].api = "events.update"
    /\ calls'[Len(calls')].ok

\* The event but for its colorId.
OtherFields(e) == [e EXCEPT !.colorId = NoColor]

\* C10: each update issued by sync_event_colors sets only the colorId: every
\* other field of every event at the service keeps the value it had at the
\* service just before the update.
C10_UpdateKeepsOtherFields ==
    [][UpdateStep =>
          \A i \in 1..Len(events[calendar_id]) :
              OtherFields(events'[calendar_id][i]) = OtherFields(events[calendar_id][i])]_vars

(***************************************************************************)
(* Event Builder: create_event, add_event_using_template,                  *)
(* add_recurring_event                                                     *)
(***************************************************************************)

\* EVENT_TEMPLATES: template name -> summary and duration in minutes. The
\* second template has no duration, the third lasts no time, the fourth has
\* a negative duration.
event_templates ==
    ("Meeting" :> [summary |-> "Meeting", duration |-> 30])
    @@ ("Call" :> [summary |-> "Call"])
    @@ ("Marker" :> [summary |-> "Marker", duration |-> 0])
    @@ ("Rewind" :> [summary |-> "Rewind", duration |-> -30])

\* list(event_templates.keys()): the names in the order of the configuration.
template_keys == << "Meeting", "Call", "Marker", "Rewind" >>

\* int(choice) of the texts a user may type at "Select a template by number";
\* any other text raises ValueError.
IntValue == ("1" :> 1) @@ ("2" :> 2) @@ ("3" :> 3) @@ ("0" :> 0) @@ ("9" :> 9)

TemplateChoices == {"1", "2", "3", "0", "9", "x"}

\* Lines 731-733: template_keys[int(choice) - 1], where a negative index
\* counts from the end of the list; "" for ValueError and IndexError.
SelectedTemplate(choice) ==
    IF choice \notin DOMAIN IntValue THEN ""
    ELSE LET template_index == IntValue[choice] - 1
             n == Len(template_keys) IN
         IF template_index >= n \/ template_index < -n THEN ""
         ELSE IF template_index < 0 THEN template_keys[n + template_index + 1]
         ELSE template_keys[template_index + 1]

\* datetime.isoformat(): the string of the instant, the inverse of
\* datetime.fromisoformat.
IsoFormat(instant) ==
    CHOOSE s \in {DateTime(d, t) : d \in DOMAIN DateValue, t \in DOMAIN TimeValue} :
        FromIsoFormat(s) = instant

\* What prompt_for_datetime (lines 345-383) may return: it retries until the
\* parts typed form a datetime, so it returns an ISO 8601 string.
PromptedTimes ==
    {DateTime("2024-06-01", "09:00:00"), DateTime("2024-06-01", "09:30:00")}

\* The start_time and end_time strings a caller of create_event may pass.
TimeArguments == PromptedTimes \cup {DateTime("2024-06-01", "9am")}

\* Mutant of CreateEventRangeInvalid: an event that ends when it starts is
\* accepted.
CreateEventRangeInvalidStrict(start, end) == start > end

\* Line 284: start >= end.
CreateEventRangeInvalid(start, end) == start >= end

\* Line 805: start_dt >= end_dt.
RecurringRangeInvalid(start_dt, end_dt) == start_dt >= end_dt

\* Lines 291-293: the colorId of the configuration for the calendar's name.
CreateColorId(calendar_name) == Get(color_map, Get(calendars, calendar_name, "#236192"), "1")

\* Lines 274-341: create_event, called after the calls before and the
\* messages before; the messages after are what its caller prints when it
\* has returned. It returns None on every path: the two except clauses of
\* lines 333-341 catch every exception of the try block, so the except
\* clause its caller has around the call (lines 768-770) is never entered.
create_event(calendar_name, summary, start_time, end_time, before, printed, after) ==
    \E listOk \in BOOLEAN, insertOk \in BOOLEAN :
       LET id == GetCalendarId(listOk, calendar_name)
           listed_calls == Append(before, GetCalendarIdCall(listOk)) IN
       IF id = NoCalendar
       THEN \* lines 275-278
            /\ insertOk
            /\ calls' = listed_calls
            /\ report' = printed \o GetCalendarIdReport(listOk, calendar_name)
                             \o << Msg("calendar not found!", 0) >> \o after
            /\ UNCHANGED events
       ELSE IF ~IsIsoFormat(start_time) \/ ~IsIsoFormat(end_time)
       THEN \* lines 333-336
            /\ insertOk
            /\ calls' = listed_calls
            /\ report' = printed \o << Msg("invalid datetime format", 0) >> \o after
            /\ UNCHANGED events
       ELSE IF CreateEventRangeInvalid(FromIsoFormat(start_time), FromIsoFormat(end_time))
       THEN \* lines 284-287
            /\ insertOk
            /\ calls' = listed_calls
            /\ report' = printed
                             \o << Msg("start time must be earlier than end time", 0) >>
                             \o after
            /\ UNCHANGED events
       ELSE LET event == Payload(summary, start_time, end_time,
                                 CreateColorId(calendar_name), NoRule) IN
            /\ calls' = Append(listed_calls, Call("events.insert", 0, event, insertOk))
            /\ IF insertOk
               THEN /\ events' = [events EXCEPT ![id] = Insert(@, event)]
                    /\ report' = printed \o << Msg("event created", 0) >> \o after
               ELSE \* lines 338-341
                    /\ report' = printed \o << Msg("error creating event", 0) >> \o after
                    /\ UNCHANGED events

\* The operation begins at the menu.
Begin(name, calendar_name, start_time, end_time, typed) ==
    /\ pc = "menu"
    /\ prev' = [prev EXCEPT !.changed = dirty]
    /\ dirty' = FALSE
    /\ op' = Op(name, calendar_name, start_time, end_time, typed)
    /\ pc' = "return"
    /\ returned' = None

\* create_event(calendar_name, summary, start_time, end_time), lines 263-341.
CreateEvent(calendar_name, start_time, end_time) ==
    /\ Begin("create", calendar_name, start_time, end_time, << >>)
    /\ create_event(calendar_name, "Standup", start_time, end_time, << >>, << >>, << >>)
    /\ UNCHANGED <<authVars, syncVars>>

\* add_event_using_template(calendar_name), lines 702-770.
AddEventUsingTemplate(calendar_name, choice, start_time) ==
    \E calOk \in BOOLEAN :
       LET id == GetCalendarId(calOk, calendar_name)
           selected_template == SelectedTemplate(choice) IN
       IF id = NoCalendar
       THEN \* lines 718-721
            /\ Begin("template", calendar_name, NoTime, NoTime, << choice >>)
            /\ calls' = << GetCalendarIdCall(calOk) >>
            /\ report' = GetCalendarIdReport(calOk, calendar_name)
                             \o << Msg("calendar not found!", 0) >>
            /\ UNCHANGED <<authVars, events, syncVars>>
       ELSE IF selected_template = ""
       THEN \* lines 734-737
            /\ Begin("template", calendar_name, NoTime, NoTime, << choice >>)
            /\ calls' = << GetCalendarIdCall(calOk) >>
            /\ report' = << Msg("invalid choice", 0) >>
            /\ UNCHANGED <<authVars, events, syncVars>>
       ELSE LET template == event_templates[selected_template]
                summary == Get(template, "summary", "Untitled Event")
                duration == Get(template, "duration", 60)
                start_dt == FromIsoFormat(start_time)
                end_dt == start_dt + duration
                start_time_str == IsoFormat(start_dt)
                end_time_str == IsoFormat(end_dt) IN
            /\ Begin("template", calendar_name, start_time_str, end_time_str, << choice >>)
            /\ create_event(calendar_name, summary, start_time_str, end_time_str,
                            << GetCalendarIdCall(calOk) >>, << >>,
                            << Msg("event added using template", 0) >>)
            /\ UNCHANGED <<authVars, syncVars>>

\* Line 828: frequency_mapping.
frequency_mapping ==
    ("1" :> "DAILY") @@ ("2" :> "WEEKLY") @@ ("3" :> "MONTHLY") @@ ("4" :> "YEARLY")

\* The texts a user may type at the prompts of add_recurring_event, after
\* strip() and lower().
RecurrenceChoices == {"1", "5"}

\* All the texts for the recurrence pattern: the four of the menu and another.
AllRecurrenceChoices == {"1", "2", "3", "4", "5"}

EndConditions == {"d", "n", "x"}

EndDates == {"2024-06-01"}

Counts == {"5", "x"}

\* More texts for the end date and the number of occurrences: a text that
\* is no date, a date with slashes, and zero.
AllEndDates == EndDates \cup {"soon", "2024/06/01"}

AllCounts == Counts \cup {"0"}

\* Mutant of WithoutDashes: the dashes stay.
WithDashes(end_date) == end_date

\* end_date.replace('-', ''): of the texts above only the date has dashes.
WithoutDashes(end_date) == IF end_date = "2024-06-01" THEN "20240601" ELSE end_date

\* str.isdigit()
IsDigit(count) == count \in {"0", "1", "3", "5", "9"}

\* Line 850: f"RRULE:FREQ={frequency};UNTIL={end_date.replace('-', '')}T000000Z"
UntilRule(frequency, end_date) ==
    "RRULE:FREQ=" \o frequency \o ";UNTIL=" \o WithoutDashes(end_date) \o "T000000Z"

\* Line 859: f"RRULE:FREQ={frequency};COUNT={count}"
CountRule(frequency, count) == "RRULE:FREQ=" \o frequency \o ";COUNT=" \o count

\* add_recurring_event(calendar_name), lines 774-906. The payload has no
\* colorId key.
AddRecurringEvent(calendar_name, start_time, end_time, choice, end_condition, end_text) ==
    /\ Begin("recurring", calendar_name, start_time, end_time,
             << choice, end_condition, end_text >>)
    /\ \E calOk \in BOOLEAN, insertOk \in BOOLEAN :
          LET id == GetCalendarId(calOk, calendar_name)
              frequency == Get(frequency_mapping, choice, "") IN
          /\ IF id = NoCalendar
             THEN \* lines 790-793
                  /\ report' = GetCalendarIdReport(calOk, calendar_name)
                                   \o << Msg("calendar not found!", 0) >>
                  /\ calls' = << GetCalendarIdCall(calOk) >>
                  /\ insertOk
                  /\ UNCHANGED events
             ELSE IF RecurringRangeInvalid(FromIsoFormat(start_time), FromIsoFormat(end_time))
             THEN \* lines 805-812
                  /\ report' = << Msg("start time must be earlier than end time", 0) >>
                  /\ calls' = << GetCalendarIdCall(calOk) >>
                  /\ insertOk
                  /\ UNCHANGED events
             ELSE IF frequency = ""
             THEN \* lines 831-835
                  /\ report' = << Msg("invalid recurrence choice", 0) >>
                  /\ calls' = << GetCalendarIdCall(calOk) >>
                  /\ insertOk
                  /\ UNCHANGED events
             ELSE IF end_condition = "n" /\ ~IsDigit(end_text)
             THEN \* lines 855-858
                  /\ report' = << Msg("invalid number of occurrences", 0) >>
                  /\ calls' = << GetCalendarIdCall(calOk) >>
                  /\ insertOk
                  /\ UNCHANGED events
             ELSE IF end_condition \notin {"d", "n"}
             THEN \* lines 860-864
                  /\ report' = << Msg("invalid end condition choice", 0) >>
                  /\ calls' = << GetCalendarIdCall(calOk) >>
                  /\ insertOk
                  /\ UNCHANGED events
             ELSE LET recurrence_rule ==
                          IF end_condition = "d"
                          THEN UntilRule(frequency, end_text)
                          ELSE CountRule(frequency, end_text)
                      event == Payload("Standup", start_time, end_time, NoColor,
                                       recurrence_rule) IN
                  /\ calls' = << GetCalendarIdCall(calOk),
                                 Call("events.insert", 0, event, insertOk) >>
                  /\ IF insertOk
                     THEN /\ events' = [events EXCEPT ![id] = Insert(@, event)]
                          /\ report' = << Msg("recurring event created", 0) >>
                     ELSE \* lines 903-906
                          /\ report' = << Msg("error creating recurring event", 0) >>
                          /\ UNCHANGED events
    /\ UNCHANGED <<authVars, syncVars>>

(***************************************************************************)
(* The four construction paths together                                    *)
(***************************************************************************)

\* The service has room for this many more events.
Room(n) == TotalEvents + n <= MaxBuilt

InitBuild ==
    /\ pc = "menu"
    /\ Authenticated
    /\ events = NoEvents
    /\ IdleLocals
    /\ NoHistory

NextBuild ==
    \/ /\ Room(1)
       /\ \E calendar_name \in CalendarNames, start_time \in TimeArguments,
             end_time \in TimeArguments :
             CreateEvent(calendar_name, start_time, end_time)
    \/ /\ Room(1)
       /\ \E calendar_name \in CalendarNames, choice \in TemplateChoices,
             start_time \in PromptedTimes :
             AddEventUsingTemplate(calendar_name, choice, start_time)
    \/ /\ Room(1)
       /\ \E calendar_name \in CalendarNames, start_time \in PromptedTimes,
             end_time \in PromptedTimes, choice \in RecurrenceChoices,
             end_condition \in EndConditions, end_text \in EndDates \cup Counts :
             /\ end_condition = "d" => end_text \in EndDates
             /\ end_condition # "d" => end_text \in Counts
             /\ AddRecurringEvent(calendar_name, start_time, end_time, choice,
                                  end_condition, end_text)
    \/ \E n \in 0..MaxRows :
          /\ Room(n)
          /\ \E calendar_name \in CalendarNames, file \in CsvArgumentsOfLength[n] :
                ImportBegin(calendar_name, file)
    \/ ImportRow
    \/ ImportFinish
    \/ Return

SpecBuild == InitBuild /\ [][NextBuild]_vars

(***************************************************************************)
(* add_recurring_event alone, with more of the texts a user may type, each *)
(* time for an account that holds no event                                 *)
(***************************************************************************)

NextRecurring ==
    \/ /\ events = NoEvents
       /\ \E calendar_name \in CalendarNames, start_time \in PromptedTimes,
             end_time \in PromptedTimes, choice \in AllRecurrenceChoices,
             end_condition \in EndConditions, end_text \in AllEndDates \cup AllCounts :
             /\ end_condition = "d" => end_text \in AllEndDates
             /\ end_condition # "d" => end_text \in AllCounts
             /\ AddRecurringEvent(calendar_name, start_time, end_time, choice,
                                  end_condition, end_text)
    \/ Return

SpecRecurring == InitBuild /\ [][NextRecurring]_vars

(***************************************************************************)
(* Claims about import_from_csv                                            *)
(***************************************************************************)

\* import_from_csv opened a file with a header and is about to return.
ImportEnded ==
    /\ pc = "return"
    /\ op.name = "import"
    /\ Len(report) > 0
    /\ report[1] = Msg("CSV headers", 0)

\* The row has its five fields, they parse, and it starts before it ends.
ValidRow(row) ==
    /\ \A c \in Columns : ~row[c].isNone /\ Strip(row[c].text) # ""
    /\ IsIsoFormat(StartDatetime(row))
    /\ IsIsoFormat(EndDatetime(row))
    /\ FromIsoFormat(StartDatetime(row)) < FromIsoFormat(EndDatetime(row))

\* The positions in calls of the insert requests.
Inserts == {k \in 1..Len(calls) : calls[k].api = "events.insert"}

InsertIssued(i) == \E k \in Inserts : calls[k].arg = i

SkipReasons ==
    {"skipping row: missing fields", "skipping row: invalid datetime format",
     "skipping row: invalid time range"}

\* The positions in report of the messages that skip a row.
Skips == {k \in 1..Len(report) : report[k].msg \in SkipReasons}

RowRejected(i) == \E k \in Skips : report[k].n = i

\* C4: in import_from_csv a remote failure of the insert of one row does not
\* keep the following rows from being attempted: once the import has ended,
\* every valid row after a row whose insert failed has had its insert issued,
\* and the inserts were issued in row order.
C4_LaterRowsStillInserted ==
    ImportEnded =>
        /\ \A k \in Inserts :
              ~calls[k].ok =>
                  \A j \in (calls[k].arg + 1)..Len(rows) :
                      ValidRow(rows[j]) => InsertIssued(j)
        /\ \A k, l \in Inserts : k < l => calls[k].arg < calls[l].arg

\* C5: import_from_csv never fails as a whole because of a malformed row:
\* once an import in which no remote call failed has ended, every row that
\* is not valid was skipped with a reason, every valid row had its insert
\* issued, and no error ended the import.
C5_MalformedRowOnlyRejected ==
    (ImportEnded /\ ~AnyFailed(calls)) =>
        /\ \A i \in 1..Len(rows) :
              IF ValidRow(rows[i]) THEN InsertIssued(i) ELSE RowRejected(i)
        /\ \A k \in 1..Len(report) : report[k].msg # "error processing CSV"

\* C6: for every import on a resolvable calendar, each row ends as exactly
\* one of accepted (its insert was attempted) or rejected (skipped with a
\* reason): the accepted and the rejected rows together are all the rows.
C6_AcceptedPlusRejectedIsAll ==
    ImportEnded =>
        /\ \A i \in 1..Len(rows) : InsertIssued(i) # RowRejected(i)
        /\ Cardinality(Inserts) + Cardinality(Skips) = Len(rows)

(***************************************************************************)
(* Claims about the four construction paths                                *)
(***************************************************************************)

\* An operation that builds one event is about to return, its calendar was
\* found, and its start and end time are ISO 8601 strings.
BuiltOne ==
    /\ pc = "return"
    /\ op.name \in {"create", "template", "recurring"}
    /\ Resolvable(op.arg)
    /\ \A k \in 1..Len(calls) : calls[k].api = "calendarList.list" => calls[k].ok
    /\ IsIsoFormat(op.start_time)
    /\ IsIsoFormat(op.end_time)

RejectedForRange ==
    \E k \in 1..Len(report) : report[k].msg = "start time must be earlier than end time"

\* The for loop of import_from_csv reached the row, its five fields are
\* there, and its start and end parse.
RowChecked(i) ==
    /\ i <= idx
    /\ ~StripRaises(rows[i])
    /\ ~MissingFields(rows[i])
    /\ ~InvalidFormat(rows[i])

RowRejectedForRange(i) ==
    \E k \in 1..Len(report) : report[k] = Msg("skipping row: invalid time range", i)

\* C1: in every construction path (create_event, add_event_using_template,
\* add_recurring_event, import_from_csv), for every start and end the path
\* compares: the event is rejected for its time range if and only if
\* start >= end, and every insert the path issues is of an event with
\* start < end.
C1_RangeRejectedIffStartNotBeforeEnd ==
    /\ BuiltOne =>
          (RejectedForRange <=>
               FromIsoFormat(op.start_time) >= FromIsoFormat(op.end_time))
    /\ ImportEnded =>
          \A i \in 1..Len(rows) :
              RowChecked(i) =>
                  /\ RowRejectedForRange(i) <=>
                         FromIsoFormat(StartDatetime(rows[i]))
                             >= FromIsoFormat(EndDatetime(rows[i]))
                  /\ InsertIssued(i) =>
                         FromIsoFormat(StartDatetime(rows[i]))
                             < FromIsoFormat(EndDatetime(rows[i]))
    /\ \A k \in Inserts :
          FromIsoFormat(calls[k].body.start) < FromIsoFormat(calls[k].body.end)

\* C1 witness: an import has rejected a row that ends when it starts and has
\* inserted the valid row after it.
C1_Witness ==
    /\ ImportEnded
    /\ Len(rows) = 2
    /\ RowChecked(1)
    /\ FromIsoFormat(StartDatetime(rows[1])) = FromIsoFormat(EndDatetime(rows[1]))
    /\ RowRejectedForRange(1)
    /\ RowChecked(2)
    /\ InsertIssued(2)

(***************************************************************************)
(* Claims about what sync_event_colors returns                             *)
(***************************************************************************)

\* C11: sync_event_colors returns to its caller the number of events whose
\* remote update succeeded in this run, also when the update of some other
\* event failed.
C11_ReturnsCountOfUpdated ==
    (pc = "return" /\ op.name = "sync" /\ calendar_id # NoCalendar)
        => returned = Number(Updates(calls))

(***************************************************************************)
(* Claims about colours                                                    *)
(***************************************************************************)

\* C12: every event import_from_csv inserts carries the colorId that
\* create_event and sync_event_colors compute for the calendar's name from
\* the configured name-to-hex and hex-to-colorId maps.
C12_ImportUsesPolicyColour ==
    ImportEnded =>
        \A k \in Inserts :
            /\ calls[k].body.colorId = CreateColorId(op.arg)
            /\ calls[k].body.colorId = SyncColorId(op.arg)

\* The hex the Color Policy has for the name: the configured one, or the
\* fixed default.
PolicyHex(calendar_name) ==
    IF calendar_name \in DOMAIN calendars THEN calendars[calendar_name] ELSE "#236192"

\* The colorId the Color Policy has for the name.
PolicyColorId(calendar_name) ==
    IF PolicyHex(calendar_name) \in DOMAIN color_map
    THEN color_map[PolicyHex(calendar_name)]
    ELSE "1"

\* sync_event_colors has found the calendar and computed its colour.
SyncHasColour ==
    /\ pc \in {"sync_loop", "return"}
    /\ op.name = "sync"
    /\ calendar_id # NoCalendar

\* C13: the colour computation is total: for every calendar name it gives
\* the colorId the configured table maps the name's configured hex to, with
\* the default hex #236192 for a name that is not configured and colorId "1"
\* for a hex that is not in the table; create_event and sync_event_colors
\* compute it alike.
C13_ColourIsPolicyColour ==
    /\ SyncHasColour => color_id = PolicyColorId(op.arg)
    /\ (pc = "return" /\ op.name \in {"create", "template"}) =>
          \A k \in Inserts : calls[k].body.colorId = PolicyColorId(op.arg)
    /\ \A name \in SyncNames :
          /\ CreateColorId(name) = SyncColorId(name)
          /\ SyncColorId(name) \in {"1", "9", "11"}

\* C13 witness: sync_event_colors has run for a calendar whose configured
\* hex is not in the table, and has used colorId "1".
C13_Witness ==
    /\ SyncHasColour
    /\ pc = "return"
    /\ op.arg = "work"
    /\ op.arg \in DOMAIN calendars
    /\ calendars[op.arg] \notin DOMAIN color_map
    /\ color_id = "1"

(***************************************************************************)
(* Claims about get_calendar_id                                            *)
(***************************************************************************)

\* The calendarList.list call of the operation succeeded.
ListSucceeded ==
    /\ Len(calls) > 0
    /\ calls[1].api = "calendarList.list"
    /\ calls[1].ok

\* The positions, over all pages, of the calendars with exactly this name.
Named(calendar_name) ==
    {i \in 1..Len(AllCalendars) : AllCalendars[i].summary = calendar_name}

\* C14: get_calendar_id returns the identifier of a calendar of the given
\* name whenever the account has one, on whichever page of the calendar list
\* it is: when the list call succeeds and some page has a calendar of that
\* name, a calendar is found.
C14_FoundOnAnyPage ==
    (pc = "return" /\ op.name = "sync" /\ ListSucceeded /\ Named(op.arg) # {})
        => calendar_id # NoCalendar

\* C15: get_calendar_id matches names exactly and with regard to case, and
\* of several calendars of the name it returns the first in the order of
\* the service's list: the calendar found is the first of all calendars
\* whose summary is the name typed, and a name on the first page is found.
C15_FirstExactMatch ==
    (pc \in {"sync_loop", "return"} /\ op.name = "sync" /\ ListSucceeded) =>
        /\ calendar_id # NoCalendar =>
              /\ Named(op.arg) # {}
              /\ \E i \in Named(op.arg) :
                    /\ AllCalendars[i].id = calendar_id
                    /\ \A j \in Named(op.arg) : i <= j
        /\ (\E i \in Named(op.arg) : i <= Len(RemoteCalendarList)) =>
              calendar_id # NoCalendar

\* C15 witness: "Work" was typed; the list has "work" before the first
\* "Work" and another "Work" after it, and the first "Work" was found.
C15_Witness ==
    /\ pc = "return" /\ op.name = "sync" /\ ListSucceeded
    /\ op.arg = "Work"
    /\ Cardinality(Named("Work")) = 2
    /\ \E i \in Named("work") : \A j \in Named("Work") : i < j
    /\ calendar_id = "c1"

(***************************************************************************)
(* Claims about the recurrence rule                                        *)
(***************************************************************************)

\* The grammar of the rules: the four frequencies, a calendar date as
\* YYYYMMDD, a positive integer.
Frequencies == {"DAILY", "WEEKLY", "MONTHLY", "YEARLY"}

CompactDates == {"20240601", "20240630"}

PositiveIntegers == {"1", "5"}

GrammarRules ==
    {"RRULE:FREQ=" \o f \o ";UNTIL=" \o d \o "T000000Z" : f \in Frequencies, d \in CompactDates}
    \cup {"RRULE:FREQ=" \o f \o ";COUNT=" \o n : f \in Frequencies, n \in PositiveIntegers}

\* add_recurring_event is about to return.
RecurringEnded == pc = "return" /\ op.name = "recurring"

\* C16: every recurrence rule add_recurring_event sends to the service has
\* one of the four frequencies and ends with UNTIL=<YYYYMMDD>T000000Z for a
\* calendar date or with COUNT=<n> for a positive integer n; for any other
\* text typed no insert is issued.
C16_RuleConformsToGrammar ==
    RecurringEnded => \A k \in Inserts : calls[k].body.recurrence \in GrammarRules

\* YYYY-MM-DD dates and their YYYYMMDD form.
CompactDate == ("2024-06-01" :> "20240601") @@ ("2024-06-30" :> "20240630")

\* The frequency of each choice of the menu.
FrequencyOfChoice == ("1" :> "DAILY") @@ ("2" :> "WEEKLY") @@ ("3" :> "MONTHLY") @@ ("4" :> "YEARLY")

\* add_recurring_event has sent a rule for a count, or for a date typed as
\* YYYY-MM-DD.
RuleSent ==
    /\ RecurringEnded
    /\ Inserts # {}
    /\ op.typed[2] = "d" => op.typed[3] \in DOMAIN CompactDate

\* C17: the rule is serialized verbatim in its two termination modes:
\* frequency f with COUNT n gives FREQ=f;COUNT=n, frequency f with UNTIL
\* date YYYY-MM-DD gives FREQ=f;UNTIL=YYYYMMDDT000000Z, after the RRULE:
\* prefix of the service's rule grammar.
C17_RuleSerializedVerbatim ==
    RuleSent =>
        \A k \in Inserts :
            /\ op.typed[2] = "n" =>
                  calls[k].body.recurrence =
                      "RRULE:FREQ=" \o FrequencyOfChoice[op.typed[1]] \o ";COUNT=" \o op.typed[3]
            /\ op.typed[2] = "d" =>
                  calls[k].body.recurrence =
                      "RRULE:FREQ=" \o FrequencyOfChoice[op.typed[1]] \o ";UNTIL="
                          \o CompactDate[op.typed[3]] \o "T000000Z"
            /\ op.typed = << "2", "n", "5" >> =>
                  calls[k].body.recurrence = "RRULE:FREQ=WEEKLY;COUNT=5"
            /\ op.typed = << "1", "d", "2024-06-01" >> =>
                  calls[k].body.recurrence = "RRULE:FREQ=DAILY;UNTIL=20240601T000000Z"

\* C17 witness: (DAILY, UNTIL 2024-06-01) was typed and its rule was sent.
C17_Witness ==
    /\ RuleSent
    /\ op.typed = << "1", "d", "2024-06-01" >>
    /\ \E k \in Inserts :
          calls[k].ok /\ calls[k].body.recurrence = "RRULE:FREQ=DAILY;UNTIL=20240601T000000Z"

(***************************************************************************)
(* Claims about the inserts of the construction paths                      *)
(***************************************************************************)

\* create_event is about to return; its calendar was found, its start and
\* end parse, and it starts before it ends.
CreateEventBuilt ==
    /\ BuiltOne
    /\ op.name = "create"
    /\ FromIsoFormat(op.start_time) < FromIsoFormat(op.end_time)

\* C18: an invocation of create_event issues exactly one insert when the
\* calendar is found and start < end, and no invocation issues more than
\* one; a failed insert is not retried, and its failure reaches the caller:
\* create_event does not return to it as after a success.
C18_OneInsertFailureSurfaced ==
    /\ (pc = "return" /\ op.name = "create") => Cardinality(Inserts) <= 1
    /\ CreateEventBuilt =>
          /\ Cardinality(Inserts) = 1
          /\ (\E k \in Inserts : ~calls[k].ok) => returned # None

\* The messages that report an event as added.
Reported(msg) == {k \in 1..Len(report) : report[k].msg = msg}

SuccessfulInserts == {k \in Inserts : calls[k].ok}

\* C19: every operation that creates events reports success for an event if
\* and only if the insert of that event was issued and succeeded: the
\* number of events reported as added is the number of successful inserts.
C19_SuccessReportedIffInserted ==
    /\ (pc = "return" /\ op.name = "create") =>
          Cardinality(Reported("event created")) = Cardinality(SuccessfulInserts)
    /\ (pc = "return" /\ op.name = "template") =>
          Cardinality(Reported("event added using template"))
              = Cardinality(SuccessfulInserts)
    /\ (pc = "return" /\ op.name = "recurring") =>
          Cardinality(Reported("recurring event created")) = Cardinality(SuccessfulInserts)
    /\ (pc = "return" /\ op.name = "import") =>
          Cardinality(Reported("event added")) = Cardinality(SuccessfulInserts)

\* C20: every payload a construction path inserts carries the fixed
\* reminders: the service's defaults off, one email reminder 30 minutes and
\* one pop-up reminder 10 minutes before the event.
C20_FixedReminders ==
    \A k \in Inserts :
        /\ calls[k].body.reminders.useDefault = FALSE
        /\ calls[k].body.reminders.overrides =
               << [method |-> "email", minutes |-> 30], [method |-> "popup", minutes |-> 10] >>

\* C20 witness: an import has inserted an event into a calendar that holds
\* a recurring event inserted before, both with the fixed reminders.
C20_Witness ==
    /\ pc = "return"
    /\ op.name = "import"
    /\ SuccessfulInserts # {}
    /\ Len(events[calendar_id]) = 2
    /\ events[calendar_id][1].recurrence # NoRule
    /\ \A i \in 1..2 :
          events[calendar_id][i].reminders.overrides =
              << [method |-> "email", minutes |-> 30], [method |-> "popup", minutes |-> 10] >>

(***************************************************************************)
(* Claims about validation and remote calls                                *)
(***************************************************************************)

\* The start and end given to the operation are no event: one of them is no
\* ISO 8601 string, or the start is not before the end.
InvalidEventData ==
    IF IsIsoFormat(op.start_time) /\ IsIsoFormat(op.end_time)
    THEN FromIsoFormat(op.start_time) >= FromIsoFormat(op.end_time)
    ELSE TRUE

\* C21: when the event data given to create_event or add_recurring_event is
\* invalid (start >= end, or a date/time that does not parse), the operation
\* rejects it before it issues any remote call of any kind: it returns
\* without having issued a calendar list, insert or update request.
C21_InvalidDataRejectedBeforeRemoteCall ==
    (pc = "return" /\ op.name \in {"create", "recurring"} /\ InvalidEventData)
        => calls = << >>

(***************************************************************************)
(* Claims about token.json, checked under SpecAuth                         *)
(***************************************************************************)

\* This step is a refresh call that succeeds.
RefreshSucceeds == pc = "auth_refresh" /\ refreshError' = "ok"

\* This step is a run of the full flow that succeeds.
FlowSucceeds == pc = "auth_flow" /\ pc' = "auth_build"

\* This step writes token.json.
WritesStore == storeWrites' = storeWrites + 1

\* What token.json holds: the Credential but for whether the clock has
\* passed its expiry.
Contents(s) == IF s.exists THEN [s EXCEPT !.cred.expired = FALSE] ELSE s

\* token.json holds what this invocation found in it.
StoreAsLoaded ==
    IF loaded.isNone THEN ~store.exists
    ELSE Contents(store) = Contents([exists |-> TRUE, cred |-> loaded])

\* C22: every successful refresh and every successful re-issuance writes
\* the resulting Credential to token.json before
\* authenticate_google_calendar returns, and token.json is written at no
\* other time: a failed refresh and a failed re-issuance leave the stored
\* Credential as it was.
C22_StoreWrittenOnSuccessOnly ==
    /\ [][/\ (RefreshSucceeds \/ FlowSucceeds) <=> WritesStore
          /\ WritesStore => store' = [exists |-> TRUE, cred |-> creds']
          /\ ~WritesStore => Contents(store') = Contents(store)]_vars
    /\ [](SessionReturned =>
             /\ storeWrites = (IF refreshError = "ok" THEN 1 ELSE 0) + flowRuns
             /\ storeWrites > 0 => Contents(store) = Contents([exists |-> TRUE, cred |-> service])
             /\ storeWrites = 0 => StoreAsLoaded)
    /\ []((pc \in {"exit", "crash"}) => (storeWrites = 0 /\ StoreAsLoaded))

\* C22 witness: a session was returned after a refresh that succeeded;
\* token.json was written once and holds the refreshed Credential, which is
\* not the one that was loaded.
C22_Witness ==
    /\ SessionReturned
    /\ refreshError = "ok"
    /\ storeWrites = 1
    /\ store = [exists |-> TRUE, cred |-> service]
    /\ service.token = "refreshed"
    /\ service # loaded

\* This invocation found a refresh_token in token.json.
LoadedRefreshToken == ~loaded.isNone /\ Held(loaded.refresh_token)

\* C23: once token.json holds a refresh_token, it holds a refresh_token
\* after every later authenticate_google_calendar that returns a session,
\* through refresh or through re-issuance.
C23_RefreshTokenRetained ==
    (SessionReturned /\ LoadedRefreshToken) =>
        (store.exists /\ Held(store.cred.refresh_token))

\* This invocation found a Credential in token.json whose expiry has not
\* passed.
LoadedUnexpired == ~loaded.isNone /\ ~loaded.expired

\* The invocation goes straight to the session built from what it loaded:
\* no refresh call, no flow, no write of token.json.
UsedDirectly ==
    /\ pc \in {"auth_build", "menu"}
    /\ refreshCalls = 0
    /\ flowRuns = 0
    /\ storeWrites = 0
    /\ creds = loaded
    /\ pc = "menu" => service = loaded

RaisedToMain == {"EOFError", "TypeError"}

\* The exceptions that are no subclass of Exception.
NotExceptions == {"KeyboardInterrupt", "SystemExit", "GeneratorExit"}

\* Mutant of CaughtByMainHandler: except ValueError.
CaughtByMainHandlerValueErrorOnly(exception) == exception = "ValueError"

\* Line 1343: except Exception.
CaughtByMainHandler(exception) == exception \notin NotExceptions

\* Lines 1341-1342: the selected operation raises.
OperationRaises ==
    /\ pc = "menu"
    /\ prev' = [prev EXCEPT !.changed = dirty]
    /\ dirty' = FALSE
    /\ \E name \in {"template", "sync"}, exception \in RaisedToMain :
          op' = Op(name, "", NoTime, NoTime, << exception >>)
    /\ pc' = "raised"
    /\ UNCHANGED <<authVars, events, syncVars, calls, report, returned>>

\* Lines 1343-1348: main's handler prints the error and the loop goes on;
\* an exception it does not catch leaves main.
MainHandler ==
    /\ pc = "raised"
    /\ IF CaughtByMainHandler(op.typed[1])
       THEN /\ report' = Append(report, Msg("an error occurred", 0))
            /\ pc' = "return"
       ELSE /\ pc' = "done"
            /\ UNCHANGED report
    /\ UNCHANGED <<authVars, events, syncVars, op, calls, returned, prev, dirty>>

\* Lines 1349-1352: the choice is no option of the menu.
InvalidChoice ==
    /\ pc = "menu"
    /\ prev' = [prev EXCEPT !.changed = dirty]
    /\ dirty' = FALSE
    /\ op' = Op("invalid", "", NoTime, NoTime, << "12" >>)
    /\ report' = << Msg("invalid choice!", 0) >>
    /\ pc' = "return"
    /\ UNCHANGED <<authVars, events, syncVars, calls, returned>>

\* Lines 1334-1338: the user enters 'exit'; break.
Exit ==
    /\ pc = "menu"
    /\ op' = Op("exit", "", NoTime, NoTime, << "exit" >>)
    /\ report' = << Msg("goodbye!", 0) >>
    /\ pc' = "done"
    /\ UNCHANGED <<authVars, events, syncVars, calls, returned, prev, dirty>>

NextMenu ==
    \/ \E calendar_name \in CalendarNames : SyncBegin(calendar_name)
    \/ SyncEvent
    \/ SyncFinish
    \/ /\ Room(1)
       /\ \E calendar_name \in CalendarNames, choice \in TemplateChoices,
             start_time \in PromptedTimes :
             AddEventUsingTemplate(calendar_name, choice, start_time)
    \/ OperationRaises
    \/ MainHandler
    \/ InvalidChoice
    \/ Exit
    \/ Return

SpecMenu == InitSync /\ [][NextMenu]_vars

\* The operation selected has ended: it returned, or it raised and main's
\* handler has printed the error.
OperationEnded == pc = "return"

\* The operation failed through a validation, a lookup or a remote error.
OperationFailed ==
    \/ AnyFailed(calls)
    \/ \E k \in 1..Len(report) :
          report[k].msg \in {"calendar not found!", "invalid choice", "error syncing",
                             "start time must be earlier than end time",
                             "error creating event", "an error occurred"}

ZFill2(s) == IF s \in {"0", "1", "6", "9"} THEN "0" \o s ELSE s

\* What a user may type at the prompts of prompt_for_event: one event of
\* 2024-06-01 that starts at 9:00 or 9:30 and ends at 9:00 or 9:30.
EnteredEvents ==
    {[summary |-> "Standup", year |-> "2024", month |-> "6", day |-> "1",
      start_hour |-> "9", start_minute |-> sm, end_hour |-> "9", end_minute |-> em] :
        sm \in {"0", "30"}, em \in {"0", "30"}}

RECURSIVE EnteredLists(_)
EnteredLists(n) ==
    IF n = 0 THEN {<< >>}
    ELSE EnteredLists(n - 1) \cup
         {Append(l, e) : l \in {k \in EnteredLists(n - 1) : Len(k) = n - 1}, e \in EnteredEvents}

\* create_csv.py lines 16-17: the date and the time of f"{date}T{time}".
EnteredDate(e) == e.year \o "-" \o ZFill2(e.month) \o "-" \o ZFill2(e.day)

EnteredTime(hour, minute) == ZFill2(hour) \o ":" \o ZFill2(minute) \o ":00"

\* create_csv.py lines 5-24: prompt_for_event, the dict of one event.
prompt_for_event(e) ==
    [summary |-> e.summary,
     start_date |-> DateTime(EnteredDate(e), EnteredTime(e.start_hour, e.start_minute)),
     end_date |-> DateTime(EnteredDate(e), EnteredTime(e.end_hour, e.end_minute))]

\* create_csv.py line 31: the column headers create_csv writes.
headers == {"summary", "start_date", "end_date"}

\* create_csv.py lines 34-48: the file create_csv writes, as csv.DictReader
\* yields it: one dict per event, with the headers as its keys.
create_csv(entered) == [i \in 1..Len(entered) |-> prompt_for_event(entered[i])]

\* Lines 617-621: row.get(column, "") for a dict of the reader; the cells
\* of create_csv are a summary text and two datetime strings.
RowGet(row, column) == IF column \in DOMAIN row THEN Text(row[column]) ELSE Text("")

\* The file of create_csv as the csv_file argument of import_from_csv.
CreatedCsvFile(entered) ==
    [exists |-> TRUE, header |-> headers # {},
     rows |-> [i \in 1..Len(entered) |->
                  Row(RowGet(create_csv(entered)[i], "Summary"),
                      RowGet(create_csv(entered)[i], "Start Date"),
                      RowGet(create_csv(entered)[i], "Start Time"),
                      RowGet(create_csv(entered)[i], "End Date"),
                      RowGet(create_csv(entered)[i], "End Time"))],
     entered |-> entered]

\* The files create_csv may write.
CreatedCsvFiles == {CreatedCsvFile(entered) : entered \in EnteredLists(MaxRows) \ {<< >>}}

NextCsv ==
    \/ \E calendar_name \in CalendarNames, file \in CreatedCsvFiles :
          ImportBegin(calendar_name, file)
    \/ ImportRow
    \/ ImportFinish
    \/ Return

SpecCsv == InitImport /\ [][NextCsv]_vars

\* The start and the end of an event entered in create_csv, as instants.
EnteredStart(e) ==
    FromIsoFormat(DateTime(EnteredDate(e), EnteredTime(e.start_hour, e.start_minute)))

EnteredEnd(e) ==
    FromIsoFormat(DateTime(EnteredDate(e), EnteredTime(e.end_hour, e.end_minute)))

\* C26: a CSV file written by create_csv is a valid input of
\* import_from_csv: once the import of such a file has ended without a
\* failing remote call, every event entered in create_csv with its start
\* before its end has had its insert issued, with the summary, the start
\* and the end that were entered.
C26_CreatedFileIsImported ==
    (ImportEnded /\ op.typed # << >> /\ ~AnyFailed(calls)) =>
        \A i \in 1..Len(op.typed) :
            EnteredStart(op.typed[i]) < EnteredEnd(op.typed[i]) =>
                \E k \in Inserts :
                    /\ calls[k].arg = i
                    /\ calls[k].body.summary = op.typed[i].summary
                    /\ FromIsoFormat(calls[k].body.start) = EnteredStart(op.typed[i])
                    /\ FromIsoFormat(calls[k].body.end) = EnteredEnd(op.typed[i])

(***************************************************************************)
(* update_event, with search_events                                        *)
(***************************************************************************)

\* A prompt left blank.
Blank == NoTime

\* Lines 345-383: prompt_for_datetime, by the answers typed at its prompts in
\* turn: an answer that forms no datetime (a blank one: int("") raises
\* ValueError) makes it ask again, and it returns the first answer that
\* forms a datetime.
RECURSIVE prompt_for_datetime(_)
prompt_for_datetime(answers) ==
    IF IsIsoFormat(Head(answers)) THEN Head(answers) ELSE prompt_for_datetime(Tail(answers))

\* What a user may type at the two datetime prompts of update_event: for
\* each, a datetime at once, or a blank answer and a datetime when asked
\* again. The pairs are: the times the stored events have, typed at once
\* and typed after a blank answer; later times after a blank answer; an end
\* before the start.
DatetimeAnswers ==
    {<< << DateTime("2024-06-01", "09:00:00") >>, << DateTime("2024-06-01", "09:30:00") >> >>,
     << << Blank, DateTime("2024-06-01", "09:00:00") >>,
        << Blank, DateTime("2024-06-01", "09:30:00") >> >>,
     << << Blank, DateTime("2024-06-01", "09:30:00") >>,
        << Blank, DateTime("2024-06-01", "10:00:00") >> >>,
     << << DateTime("2024-06-01", "09:30:00") >>, << DateTime("2024-06-01", "09:00:00") >> >>}

\* The sequence without its i-th element.
Remove(s, i) == SubSeq(s, 1, i - 1) \o SubSeq(s, i + 1, Len(s))

\* Line 975: orderBy="startTime", events of the same start in stored order.
RECURSIVE OrderByStartTime(_)
OrderByStartTime(s) ==
    IF s = << >> THEN << >>
    ELSE LET first == CHOOSE i \in 1..Len(s) :
                          \A j \in 1..Len(s) :
                              \/ FromIsoFormat(s[i].start) < FromIsoFormat(s[j].start)
                              \/ FromIsoFormat(s[i].start) = FromIsoFormat(s[j].start) /\ i <= j
         IN << s[first] >> \o OrderByStartTime(Remove(s, first))

\* Lines 962-981: events().list(calendarId, q, singleEvents=True,
\* orderBy="startTime").execute() for an empty keyword: the first page of the
\* calendar's events by start time.
SearchEvents(cal) ==
    LET found == OrderByStartTime(events[cal]) IN
    SubSeq(found, 1, IF Len(found) < PageSize THEN Len(found) ELSE PageSize)

\* The texts a user may type at the prompts of search_events and
\* update_event: the search option, the number of the event, the new
\* summary and the new description.
SearchChoices == {"1", "3"}

EventIndexes == {"1", "3", "x"}

NewSummaries == {"", "B"}

NewDescriptions == {"", "note"}

\* Lines 1034-1038: the selection is no number of a listed event.
InvalidSelection(event_index, found) ==
    \/ ~IsDigit(event_index)
    \/ IntValue[event_index] < 1
    \/ IntValue[event_index] > Len(found)

\* Python's x or y for strings.
Or(x, y) == IF x # "" THEN x ELSE y

\* Lines 1066-1080: updated_event.
UpdatedEvent(selected_event, summary, start_time, end_time, description) ==
    [summary |-> Or(summary, selected_event.summary),
     start |-> IF start_time # Blank THEN start_time ELSE selected_event.start,
     end |-> IF end_time # Blank THEN end_time ELSE selected_event.end,
     description |-> Or(description, Get(selected_event, "description", ""))]

\* events().update(eventId, body) for a body that is no whole event: the
\* service replaces the event's resource, so a field the body does not have
\* is cleared and the reminders go back to the calendar's defaults.
Replaced(id, body) ==
    [id |-> id, summary |-> body.summary, start |-> body.start, end |-> body.end,
     colorId |-> Get(body, "colorId", NoColor),
     recurrence |-> Get(body, "recurrence", NoRule),
     reminders |-> Get(body, "reminders", DefaultReminders),
     description |-> Get(body, "description", "")]

\* The operation ends with these calls and this message.
UpdateEnds(cs, msg) ==
    /\ calls' = cs
    /\ report' = << Msg(msg, 0) >>
    /\ UNCHANGED events

\* update_event(calendar_name), lines 1005-1116, with search_events, lines
\* 910-1003, for the keyword search with an empty keyword.
UpdateEvent(calendar_name, choice, event_index, summary, start_typed, end_typed, description) ==
    /\ pc = "menu"
    /\ prev' = [prev EXCEPT !.changed = dirty]
    /\ dirty' = FALSE
    /\ op' = Op("update", calendar_name, prompt_for_datetime(start_typed),
                prompt_for_datetime(end_typed),
                << choice, event_index, summary, start_typed, end_typed, description >>)
    /\ pc' = "return"
    /\ returned' = None
    /\ \E calOk \in BOOLEAN, searchCalOk \in BOOLEAN, listOk \in BOOLEAN, updateOk \in BOOLEAN :
          LET id == GetCalendarId(calOk, calendar_name)
              searchId == GetCalendarId(searchCalOk, calendar_name)
              found == SearchEvents(id)
              lookups == << GetCalendarIdCall(calOk), GetCalendarIdCall(searchCalOk) >>
              searched == Append(lookups, Call("events.list", 0, NoBody, listOk))
              start_time == prompt_for_datetime(start_typed)
              end_time == prompt_for_datetime(end_typed) IN
          IF id = NoCalendar
          THEN \* lines 1021-1027
               /\ searchCalOk /\ listOk /\ updateOk
               /\ UpdateEnds(<< GetCalendarIdCall(calOk) >>, "calendar not found!")
               /\ UNCHANGED <<calendar_id, listed, idx>>
          ELSE IF searchId = NoCalendar
          THEN \* lines 926-932 and 1032
               /\ listOk /\ updateOk
               /\ UpdateEnds(lookups, "calendar not found!")
               /\ calendar_id' = id
               /\ UNCHANGED <<listed, idx>>
          ELSE IF choice \notin {"1", "2"}
          THEN \* lines 953-957 and 1032
               /\ listOk /\ updateOk
               /\ UpdateEnds(lookups, "invalid choice.")
               /\ calendar_id' = id
               /\ UNCHANGED <<listed, idx>>
          ELSE IF ~listOk
          THEN \* lines 997-1002 and 1032
               /\ updateOk
               /\ UpdateEnds(searched, "error searching events")
               /\ calendar_id' = id
               /\ UNCHANGED <<listed, idx>>
          ELSE IF found = << >>
          THEN \* lines 980-984 and 1032
               /\ updateOk
               /\ UpdateEnds(searched, "no matching events found")
               /\ calendar_id' = id
               /\ UNCHANGED <<listed, idx>>
          ELSE IF InvalidSelection(event_index, found)
          THEN \* lines 1034-1043
               /\ updateOk
               /\ UpdateEnds(searched, "invalid event selection")
               /\ calendar_id' = id
               /\ listed' = found
               /\ UNCHANGED idx
          ELSE IF /\ start_time # Blank /\ end_time # Blank
                  /\ FromIsoFormat(start_time) >= FromIsoFormat(end_time)
          THEN \* lines 1083-1094
               /\ updateOk
               /\ UpdateEnds(searched, "start time must be earlier than end time")
               /\ calendar_id' = id
               /\ listed' = found
               /\ idx' = IntValue[event_index]
          ELSE LET selected_event == found[IntValue[event_index]]
                   updated_event == UpdatedEvent(selected_event, summary, start_time,
                                                 end_time, description) IN
               /\ calendar_id' = id
               /\ listed' = found
               /\ idx' = IntValue[event_index]
               /\ calls' = Append(searched,
                                  Call("events.update", selected_event.id, updated_event,
                                       updateOk))
               /\ IF updateOk
                  THEN /\ events' = [events EXCEPT ![id] =
                                        Put(@, selected_event.id,
                                            Replaced(selected_event.id, updated_event))]
                       /\ report' = << Msg("event updated successfully", 0) >>
                  ELSE \* lines 1113-1116
                       /\ report' = << Msg("error updating event", 0) >>
                       /\ UNCHANGED events
    /\ UNCHANGED <<authVars, color_id, updated_count, rows>>

\* An event create_event has inserted into the calendar "Misc".
CreatedEvent ==
    [id |-> 1] @@ Payload("Standup", DateTime("2024-06-01", "09:00:00"),
                          DateTime("2024-06-01", "09:30:00"), CreateColorId("Misc"), NoRule)

InitUpdate ==
    /\ pc = "menu"
    /\ Authenticated
    /\ \E l \in StoredEventLists(PageSize), m \in {<< >>, << CreatedEvent >>} :
          events = [c \in CalendarIds |-> IF c = "c1" THEN l ELSE IF c = "c2" THEN m ELSE << >>]
    /\ IdleLocals
    /\ NoHistory

NextUpdate ==
    \/ \E calendar_name \in CalendarNames, choice \in SearchChoices,
          event_index \in EventIndexes, summary \in NewSummaries,
          typed \in DatetimeAnswers, description \in NewDescriptions :
          /\ (summary = "") <=> (description = "")
          /\ UpdateEvent(calendar_name, choice, event_index, summary, typed[1], typed[2],
                         description)
    \/ Return

SpecUpdate == InitUpdate /\ [][NextUpdate]_vars

(***************************************************************************)
(* Claims about update_event, checked under SpecUpdate                     *)
(***************************************************************************)

\* update_event has asked for the new values of the event selected and is
\* about to return.
UpdatePrompted ==
    /\ pc = "return"
    /\ op.name = "update"
    /\ listed # << >>
    /\ ~InvalidSelection(op.typed[2], listed)

\* The positions in calls of the update requests.
UpdateRequests == {k \in 1..Len(calls) : calls[k].api = "events.update"}

\* The event selected, as search_events listed it.
SelectedEvent == listed[IntValue[op.typed[2]]]

\* The first answer at a datetime prompt was blank.
LeftBlank(answers) == Head(answers) = Blank

\* C27: update_event retains the event's existing value for every field the
\* user provides no update for: when the summary, start, end or description
\* prompt is left blank, the update is still issued, and its payload has the
\* event's current value of that field.
C27_BlankKeepsCurrentValue ==
    UpdatePrompted =>
        /\ (op.typed[3] = "" /\ LeftBlank(op.typed[4]) /\ LeftBlank(op.typed[5])
               /\ op.typed[6] = "") => UpdateRequests # {}
        /\ \A k \in UpdateRequests :
              /\ op.typed[3] = "" => calls[k].body.summary = SelectedEvent.summary
              /\ LeftBlank(op.typed[4]) => calls[k].body.start = SelectedEvent.start
              /\ LeftBlank(op.typed[5]) => calls[k].body.end = SelectedEvent.end
              /\ op.typed[6] = "" =>
                    calls[k].body.description = Get(SelectedEvent, "description", "")

(***************************************************************************)
(* Claims about add_event_using_template, checked under SpecBuild          *)
(***************************************************************************)

\* The duration in minutes of the template each choice selects: 60 for the
\* template that sets none.
TemplateDuration == ("1" :> 30) @@ ("2" :> 60) @@ ("3" :> 0) @@ ("0" :> -30)

\* add_event_using_template has selected a template, has called
\* create_event, and is about to return.
TemplateUsed ==
    /\ pc = "return"
    /\ op.name = "template"
    /\ op.typed[1] \in DOMAIN TemplateDuration
    /\ IsIsoFormat(op.start_time)

\* No calendar list request of the operation failed.
LookupsSucceeded == \A k \in 1..Len(calls) : calls[k].api = "calendarList.list" => calls[k].ok

\* C28: in add_event_using_template the end is the start plus the
\* template's duration in minutes, 60 minutes when the template sets none,
\* and the pair is subject to the start < end check of create_event: a
\* template whose duration is 0 or negative inserts no event, and a
\* template with a positive duration has its insert issued for that start
\* and end.
C28_EndIsStartPlusDuration ==
    TemplateUsed =>
        /\ FromIsoFormat(op.end_time)
               = FromIsoFormat(op.start_time) + TemplateDuration[op.typed[1]]
        /\ TemplateDuration[op.typed[1]] <= 0 =>
              /\ Inserts = {}
              /\ LookupsSucceeded => RejectedForRange
        /\ (TemplateDuration[op.typed[1]] > 0 /\ LookupsSucceeded) =>
              /\ ~RejectedForRange
              /\ \E k \in Inserts :
                    calls[k].body.start = op.start_time /\ calls[k].body.end = op.end_time

\* C28 witness: the template without a duration was used once, its event
\* lasts 60 minutes and was inserted; then the template that lasts no time
\* was used, and was rejected for its range without an insert.
C28_Witness ==
    /\ TemplateUsed
    /\ LookupsSucceeded
    /\ op.typed = << "3" >>
    /\ op.start_time = op.end_time
    /\ RejectedForRange
    /\ Inserts = {}
    /\ Len(events["c1"]) = 1
    /\ events["c1"][1].summary = "Call"
    /\ FromIsoFormat(events["c1"][1].end) = FromIsoFormat(events["c1"][1].start) + 60

(***************************************************************************)
(* Claims about the colour of inserted and updated events                  *)
(***************************************************************************)

\* C29: every event create_event or add_recurring_event inserts into a
\* calendar carries the colorId the configuration gives the calendar's name,
\* so that a sync_event_colors run on the calendar directly after the insert
\* finds the event's colour equal to its target and does not update it.
C29_InsertedWithCalendarColour ==
    (pc = "return" /\ op.name \in {"create", "recurring"}) =>
        \A k \in SuccessfulInserts :
            /\ calls[k].body.colorId = SyncColorId(op.arg)
            /\ ~NeedsUpdate(calls[k].body, SyncColorId(op.arg))

\* This step is an update_event whose update request succeeds.
UpdateEventStep ==
    /\ pc = "menu"
    /\ op'.name = "update"
    /\ \E k \in 1..Len(calls') : calls'[k].api = "events.update" /\ calls'[k].ok

\* The fields of an event update_event does not prompt for.
Unprompted(e) == [colorId |-> e.colorId, reminders |-> e.reminders, recurrence |-> e.recurrence]

\* C30: a successful update_event leaves unchanged at the service every
\* field of the event it does not prompt for: the colorId, the reminders and
\* the recurrence rule of every event are after the update what they were
\* before it, so an event sync_event_colors had no need to update before
\* needs no update after.
C30_UpdateKeepsUnpromptedFields ==
    [][UpdateEventStep =>
          \A n \in 1..Len(AllCalendars) :
              LET c == AllCalendars[n].id
                  target == SyncColorId(AllCalendars[n].summary) IN
              /\ Len(events'[c]) = Len(events[c])
              /\ \A i \in 1..Len(events[c]) :
                    /\ Unprompted(events'[c][i]) = Unprompted(events[c][i])
                    /\ ~NeedsUpdate(events[c][i], target)
                           => ~NeedsUpdate(events'[c][i], target)]_vars

====
